---- MODULE Spec2Model ----
(***************************************************************************)
(* Model of the multi-server lifecycle manager of grpc/server/server.go:   *)
(* NewServer's validation, Serve, the listener goroutines, the signal      *)
(* goroutine, Stop / GracefulShutdown, the shutdown engine guarded by      *)
(* shutdownOnce, and ExecuteShutdownHooks.                                 *)
(*                                                                         *)
(* Errors are pairs <<kind, name>>:                                        *)
(*   <<"listen", l>>   "... server l listen error"    (bind failure)       *)
(*   <<"serve", l>>    "... server l error"           (serve error)        *)
(*   <<"stop", l>>     "HTTP server l shutdown error" / "gRPC server l     *)
(*                      graceful shutdown timed out"                       *)
(*   <<"timeout", "">> ErrShutdownTimeout                                  *)
(*   <<"hook", h>>     the error returned by hook h's callback             *)
(*   <<"hooktimeout", h>>  "hook h timed out"                              *)
(* A joined error (errors.Join) is the set of its components; nil is {}.   *)
(***************************************************************************)
EXTENDS Integers, Sequences, FiniteSets, TLC

\* ------------------------------------------------------------------ bounds

\* Longest option list handed to NewServer.
MaxOpts == 3
\* External calls to Stop() / GracefulShutdown(ctx) on one Server.
MaxCallers == 1
\* Termination signals the operating system delivers during a run.
MaxSignals == 1

\* ---------------------------------------------------------- configuration

\* Names and bind addresses the registrations are drawn from ("" is the
\* empty address, exempt from the uniqueness check).
RegNames == {"a", "b"}
RegAddrs == {"", ":1", ":2"}

\* One option of NewServer that registers a listener: WithHTTPConfig or
\* WithGRPCConfig.  has is TRUE when the HTTP config carries a handler,
\* or the gRPC config a server instance or a setup callback.
RegOption == [kind : {"http", "grpc"}, name : RegNames, addr : RegAddrs, has : BOOLEAN]

\* The listeners of the Server whose run is modelled, by kind.
HTTPNames == {"h1"}
GRPCNames == {"g1"}
Listeners == HTTPNames \cup GRPCNames

\* Names and priorities of shutdown hooks.
HookNames == {"k1", "k2"}
Priorities == {1, 2}

\* A registered ShutdownHook: its Name and Priority (Timeout and Hook are
\* the late and r of HookReturn).
HookRec == [name : HookNames, priority : Priorities]

\* The hooks registered on the Server whose run with listeners is modelled.
ServerHooks == <<[name |-> "k1", priority |-> 1]>>

\* Every list of hooks WithShutdownHook can have registered, one hook per
\* name.
HookLists ==
  {hs \in UNION {[1..n -> HookRec] : n \in 0..Cardinality(HookNames)} :
     \A i, j \in DOMAIN hs : i # j => hs[i].name # hs[j].name}

NoErr == {}
ErrShutdownTimeout == <<"timeout", "">>

VARIABLES
  \* NewServer
  opts,          \* the option list handed to NewServer
  newResult,     \* outcome of NewServer: [done, ok, err]; done is FALSE before the call
  \* configuration of the running Server
  isAutomaticStop, signalHandling,
  httpConfigs,   \* names of the registered HTTP listeners
  grpcConfigs,   \* names of the registered gRPC listeners
  \* Server runtime state
  table,         \* httpServers / grpcServers: the listeners inserted so far
  srv,           \* state of each listener's http.Server / grpc.Server object
  cancelled,     \* shutdownCtx is cancelled
  wg,            \* s.wg: listener goroutines launched and not yet exited
  errChan,       \* errors queued on s.errChan
  errChanClosed,
  sigBuf,        \* signals queued on s.signalChan
  sigState,      \* "off", "notify" (signal.Notify active), "closed"
  sigSent,       \* signals delivered by the operating system so far
  sigPc,         \* position of the signal goroutine
  \* goroutines
  lpc,           \* position of each listener goroutine
  servePc,       \* position of Serve()
  serveErrs,     \* errs of Serve(); its return value once servePc = "returned"
  cpc,           \* position of each external Stop / GracefulShutdown call
  cres,          \* the error each external call returned
  \* shutdownOnce and the call that ran its body
  once,          \* "fresh", "running", "done"
  runner,        \* who ran the body: 0 is Serve, c > 0 an external call, -1 nobody
  isGraceful,    \* mode of that call
  bodyRuns,      \* times the body of shutdownOnce.Do started
  \* the shutdown engine (body of shutdownOnce.Do)
  epc,           \* position inside the body
  ctxState,      \* ctx of the executing call: "live", "deadline", "cancelled"
  errC,          \* errors queued on errC
  errCcap,       \* capacity of errC
  errCclosed,
  errs,          \* errs / shutdownErr of the body
  spc,           \* position of each per-listener stop goroutine
  firstRes,      \* the error shutdown returned to the call that ran the body
  \* hooks
  hpc,           \* position of each hook goroutine
  hookErrs,
  hookCalls,     \* times each hook callback was invoked
  hookRet,       \* what each hook callback returned, and whether past its timeout
  shutdownHooks, \* s.shutdownHooks: the registered hooks, sorted in place
  xpc,           \* position inside ExecuteShutdownHooks
  xres,          \* what a direct call of ExecuteShutdownHooks returned
  panicked,      \* a goroutine panicked (send on a closed channel)
  tableAccess,   \* accesses to httpServers / grpcServers: <<what, who, serverMu held>>
  \* interceptor chain
  itemOrder,     \* Chain.itemOrder: the ids in chain order
  items,         \* UnaryServerInterceptorChain.items: id -> interceptor, or Absent
  refOrder,      \* the reference ordered list the chain is compared with
  chainRet       \* the last chain operation and what it returned

newVars == <<opts, newResult>>
cfgVars == <<isAutomaticStop, signalHandling, httpConfigs, grpcConfigs>>
tblVars == <<table, srv>>
chVars == <<errChan, errChanClosed>>
sigVars == <<sigBuf, sigState, sigSent, sigPc>>
serveVars == <<servePc, serveErrs>>
callVars == <<cpc, cres>>
onceVars == <<once, runner, isGraceful, bodyRuns>>
engVars == <<epc, ctxState, errC, errCcap, errCclosed, errs, spc, firstRes>>
hookVars == <<hpc, hookErrs, hookCalls, hookRet, shutdownHooks, xpc, xres>>
chainVars == <<itemOrder, items, refOrder, chainRet>>
vars == <<newVars, cfgVars, tblVars, cancelled, wg, chVars, sigVars, lpc, serveVars,
          callVars, onceVars, engVars, hookVars, panicked, tableAccess, chainVars>>

Callers == 1 .. MaxCallers

\* ------------------------------------------------------------- NewServer

NoError == <<"", "">>

\* A plausible slip: an option without handler skipped instead of failing.
ApplyOption_SkipInvalid(st, o) ==
  IF st.err # NoError \/ ~o.has THEN st
  ELSE IF o.kind = "http" THEN [st EXCEPT !.http = Append(@, o)]
  ELSE [st EXCEPT !.grpc = Append(@, o)]

\* WithHTTPConfig / WithGRPCConfig applied to the configs collected so far:
\* a config without handler (HTTP), or without server and setup callback
\* (gRPC), is an error; otherwise the config is appended to its list.
ApplyOption(st, o) ==
  IF st.err # NoError THEN st
  ELSE IF ~o.has THEN [st EXCEPT !.err = <<"nohandler", o.name>>]
  ELSE IF o.kind = "http" THEN [st EXCEPT !.http = Append(@, o)]
  ELSE [st EXCEPT !.grpc = Append(@, o)]

\* The loop "for _, opt := range opts" of NewServer, stopping at the first
\* option that returns an error.
RECURSIVE ApplyOptions(_, _)
ApplyOptions(st, os) ==
  IF os = <<>> THEN st
  ELSE ApplyOptions(ApplyOption(st, Head(os)), Tail(os))

\* One iteration of a validation loop of NewServer on config c, with the
\* nameSet and addrSet built so far.
ValidateConfig(st, c) ==
  IF st.err # NoError THEN st
  ELSE IF c.name \in st.nameSet THEN [st EXCEPT !.err = <<"dupname", c.name>>]
  ELSE IF c.addr # "" /\ c.addr \in st.addrSet
    THEN [st EXCEPT !.err = <<"dupaddr", c.addr>>, !.nameSet = @ \cup {c.name}]
  ELSE IF ~c.has
    THEN [st EXCEPT !.err = <<"nohandler", c.name>>, !.nameSet = @ \cup {c.name},
                    !.addrSet = IF c.addr # "" THEN @ \cup {c.addr} ELSE @]
  ELSE [st EXCEPT !.nameSet = @ \cup {c.name},
                  !.addrSet = IF c.addr # "" THEN @ \cup {c.addr} ELSE @]

\* A validation loop over one config list.
RECURSIVE ValidateConfigs(_, _)
ValidateConfigs(st, cs) ==
  IF cs = <<>> THEN st
  ELSE ValidateConfigs(ValidateConfig(st, Head(cs)), Tail(cs))

\* A plausible slip: the gRPC loop validating against fresh sets.
NewServer_SeparateSets(os) ==
  LET applied == ApplyOptions([err |-> NoError, http |-> <<>>, grpc |-> <<>>], os)
      v0 == [err |-> NoError, nameSet |-> {}, addrSet |-> {}]
      v1 == ValidateConfigs(v0, applied.http)
      v2 == ValidateConfigs(v0, applied.grpc)
  IN  IF applied.err # NoError THEN [done |-> TRUE, ok |-> FALSE, err |-> applied.err]
      ELSE IF v1.err # NoError THEN [done |-> TRUE, ok |-> FALSE, err |-> v1.err]
      ELSE IF v2.err # NoError THEN [done |-> TRUE, ok |-> FALSE, err |-> v2.err]
      ELSE [done |-> TRUE, ok |-> TRUE, err |-> NoError]

\* NewServer(opts...): the options in order, then the HTTP configs, then
\* the gRPC configs, sharing nameSet and addrSet.  ok is FALSE when it
\* returns (nil, err).
NewServer(os) ==
  LET applied == ApplyOptions([err |-> NoError, http |-> <<>>, grpc |-> <<>>], os)
      v0 == [err |-> NoError, nameSet |-> {}, addrSet |-> {}]
      v1 == ValidateConfigs(v0, applied.http)
      v2 == ValidateConfigs(v1, applied.grpc)
  IN  IF applied.err # NoError THEN [done |-> TRUE, ok |-> FALSE, err |-> applied.err]
      ELSE IF v2.err # NoError THEN [done |-> TRUE, ok |-> FALSE, err |-> v2.err]
      ELSE [done |-> TRUE, ok |-> TRUE, err |-> NoError]

NotCalled == [done |-> FALSE, ok |-> FALSE, err |-> NoError]

OptionLists == UNION {[1 .. n -> RegOption] : n \in 0 .. MaxOpts}

\* ------------------------------------------------- interceptor chain

\* Interceptor ids and interceptors the chain operations are called with.
ChainIds == {"a", "b", "c"}
Inters == {"i1", "i2"}

\* The value items holds for an id that is not a key of the map.
Absent == "absent"

\* The keys of the items map.
Keys == {k \in ChainIds : items[k] # Absent}

\* c.itemOrder[lo:hi] of a Go slice (indices from 0, hi excluded).
Slice(s, lo, hi) == SubSeq(s, lo + 1, hi)

\* "var index int; for i := range c.itemOrder { if c.itemOrder[i] == id
\* { index = i; break } }": the first index (from 0) of id, 0 without one.
IndexOf(s, id) ==
  IF \E i \in DOMAIN s : s[i] = id
    THEN (CHOOSE i \in DOMAIN s : s[i] = id /\ \A j \in 1 .. i - 1 : s[j] # id) - 1
    ELSE 0

\* c.items[id] = inter
Put(m, id, inter) == [m EXCEPT ![id] = inter]

\* delete(c.items, id)
Remove(m, id) == [m EXCEPT ![id] = Absent]

\* The chain operation op, with anchor anc and id, was called and returned ok.
Returned(op, anc, id, ok) == [op |-> op, anc |-> anc, id |-> id, ok |-> ok]
NoCall == Returned("none", "", "", FALSE)

\* NewUnaryServerInterceptorChain(): an empty map, no order.
NewChain ==
  /\ itemOrder = <<>>
  /\ items = [k \in ChainIds |-> Absent]
  /\ refOrder = <<>>
  /\ chainRet = NoCall

\* The reference list: id placed at 0-based position p of list s.
RefInsertAt(s, p, id) == Slice(s, 0, p) \o <<id>> \o Slice(s, p, Len(s))

\* The reference list without id.
RefWithout(s, id) == SelectSeq(s, LAMBDA x : x # id)

\* Push(id, inter)
Push(id, inter) ==
  /\ IF id \in Keys
       THEN /\ chainRet' = Returned("Push", "", id, FALSE)
            /\ UNCHANGED <<itemOrder, items>>
       ELSE /\ items' = Put(items, id, inter)
            /\ itemOrder' = Append(itemOrder, id)
            /\ chainRet' = Returned("Push", "", id, TRUE)
  /\ refOrder' = IF \E i \in DOMAIN refOrder : refOrder[i] = id
                   THEN refOrder ELSE Append(refOrder, id)

\* A plausible slip: the new id placed after the whole chain.
InsertAfterOrder_AtEnd(s, index, id) == Append(s, id)

\* append(c.itemOrder[:index+1], append([]string{id}, c.itemOrder[index+1:]...)...)
InsertAfterOrder(s, index, id) ==
  Slice(s, 0, index + 1) \o (<<id>> \o Slice(s, index + 1, Len(s)))

\* InsertAfter(afterID, id, inter)
InsertAfter(afterID, id, inter) ==
  /\ IF id \in Keys \/ afterID \notin Keys
       THEN /\ chainRet' = Returned("InsertAfter", afterID, id, FALSE)
            /\ UNCHANGED <<itemOrder, items>>
       ELSE /\ itemOrder' = InsertAfterOrder(itemOrder, IndexOf(itemOrder, afterID), id)
            /\ items' = Put(items, id, inter)
            /\ chainRet' = Returned("InsertAfter", afterID, id, TRUE)
  /\ refOrder' =
       IF (\E i \in DOMAIN refOrder : refOrder[i] = id)
          \/ ~(\E i \in DOMAIN refOrder : refOrder[i] = afterID)
         THEN refOrder
         ELSE RefInsertAt(refOrder, IndexOf(refOrder, afterID) + 1, id)

\* The itemOrder InsertBefore builds: index-1 < 0 prepends, else
\* append(c.itemOrder[:index-1], append([]string{id}, c.itemOrder[index-1:]...)...)
InsertBeforeOrder(s, index, id) ==
  IF index - 1 < 0
    THEN <<id>> \o s
    ELSE Slice(s, 0, index - 1) \o (<<id>> \o Slice(s, index - 1, Len(s)))

\* InsertBefore(beforeID, id, inter)
InsertBefore(beforeID, id, inter) ==
  /\ IF id \in Keys \/ beforeID \notin Keys
       THEN /\ chainRet' = Returned("InsertBefore", beforeID, id, FALSE)
            /\ UNCHANGED <<itemOrder, items>>
       ELSE /\ itemOrder' = InsertBeforeOrder(itemOrder, IndexOf(itemOrder, beforeID), id)
            /\ items' = Put(items, id, inter)
            /\ chainRet' = Returned("InsertBefore", beforeID, id, TRUE)
  /\ refOrder' =
       IF (\E i \in DOMAIN refOrder : refOrder[i] = id)
          \/ ~(\E i \in DOMAIN refOrder : refOrder[i] = beforeID)
         THEN refOrder
         ELSE RefInsertAt(refOrder, IndexOf(refOrder, beforeID), id)

\* A plausible slip: the map entry deleted, the order left alone.
DeleteOrder_Keep(s, index) == s

\* append(c.itemOrder[:index], c.itemOrder[index+1:]...)
DeleteOrder(s, index) == Slice(s, 0, index) \o Slice(s, index + 1, Len(s))

\* Delete(id)
Delete(id) ==
  /\ IF id \notin Keys
       THEN /\ chainRet' = Returned("Delete", "", id, FALSE)
            /\ UNCHANGED <<itemOrder, items>>
       ELSE /\ itemOrder' = DeleteOrder(itemOrder, IndexOf(itemOrder, id))
            /\ items' = Remove(items, id)
            /\ chainRet' = Returned("Delete", "", id, TRUE)
  /\ refOrder' = RefWithout(refOrder, id)

\* Replace(id, inter)
Replace(id, inter) ==
  /\ IF id \notin Keys
       THEN /\ chainRet' = Returned("Replace", "", id, FALSE)
            /\ UNCHANGED items
       ELSE /\ items' = Put(items, id, inter)
            /\ chainRet' = Returned("Replace", "", id, TRUE)
  /\ UNCHANGED <<itemOrder, refOrder>>

\* ------------------------------------------------------------ lifecycle

\* Buffer sizes of s.errChan and s.signalChan.
ErrChanCap == 20
SigChanCap == 5

Registered == httpConfigs \cup grpcConfigs

IsHTTP(l) == l \in HTTPNames

\* The server object has been shut down or stopped: Serve(lis) on it
\* returns the closed/stopped sentinel at once.
Stopped(l) == srv[l] \in {"draining", "drained", "closed"}

\* The state right after NewServer returned a Server.
\* A hook whose callback has not returned.
NotReturned == [r |-> "none", late |-> FALSE]

InitServer ==
  /\ table = [l \in Listeners |-> FALSE]
  /\ srv = [l \in Listeners |-> "none"]
  /\ cancelled = FALSE
  /\ wg = 0
  /\ errChan = {}
  /\ errChanClosed = FALSE
  /\ sigBuf = 0
  /\ sigState = "off"
  /\ sigSent = 0
  /\ sigPc = "none"
  /\ lpc = [l \in Listeners |-> "unstarted"]
  /\ servePc = "idle"
  /\ serveErrs = {}
  /\ cpc = [c \in Callers |-> "idle"]
  /\ cres = [c \in Callers |-> {}]
  /\ once = "fresh"
  /\ runner = -1
  /\ isGraceful = FALSE
  /\ bodyRuns = 0
  /\ epc = "idle"
  /\ ctxState = "live"
  /\ errC = {}
  /\ errCcap = 0
  /\ errCclosed = FALSE
  /\ errs = {}
  /\ spc = [l \in Listeners |-> "none"]
  /\ firstRes = {}
  /\ hpc = [h \in HookNames |-> "none"]
  /\ hookErrs = {}
  /\ hookCalls = [h \in HookNames |-> 0]
  /\ hookRet = [h \in HookNames |-> NotReturned]
  /\ xpc = "idle"
  /\ xres = {}
  /\ panicked = FALSE
  /\ tableAccess = {}
  /\ NewChain

Init ==
  /\ opts = <<>>
  /\ newResult = NotCalled
  /\ isAutomaticStop \in BOOLEAN
  /\ signalHandling \in BOOLEAN
  /\ httpConfigs \in SUBSET HTTPNames
  /\ grpcConfigs \in SUBSET GRPCNames
  /\ shutdownHooks = ServerHooks
  /\ InitServer

\* ---- Serve

\* A plausible slip: the check for an empty configuration left out.
NothingToServe_Never == FALSE

\* len(s.httpConfigs) == 0 && len(s.grpcConfigs) == 0
NothingToServe == Registered = {}

\* Serve() on a Server without registrations: "no servers configured".
ServeNoServers ==
  /\ ~panicked
  /\ servePc = "idle"
  /\ NothingToServe
  /\ servePc' = "returned"
  /\ serveErrs' = {<<"noservers", "">>}
  /\ UNCHANGED <<newVars, chainVars, tableAccess,
                 cfgVars, tblVars, cancelled, wg, chVars, sigVars, lpc,
                 callVars, onceVars, engVars, hookVars, panicked>>

\* Serve() up to "All servers started": setupSignalHandling when enabled,
\* then startHTTPServer / startGRPCServer for every config (wg.Add(1) and
\* the go statement each).
ServeStart ==
  /\ ~panicked
  /\ servePc = "idle"
  /\ ~NothingToServe
  /\ sigState' = IF signalHandling THEN "notify" ELSE sigState
  /\ sigPc' = IF signalHandling THEN "range" ELSE sigPc
  /\ lpc' = [l \in Listeners |-> IF l \in Registered THEN "insert" ELSE lpc[l]]
  /\ wg' = wg + Cardinality(Registered)
  /\ servePc' = "select"
  /\ UNCHANGED <<newVars, chainVars, tableAccess,
                 cfgVars, tblVars, cancelled, chVars, sigBuf, sigSent,
                 serveErrs, callVars, onceVars, engVars, hookVars, panicked>>

\* What Serve does after its select: GracefulShutdown when automatic stop
\* is enabled, else straight to s.wg.Wait().
AfterSelect == IF isAutomaticStop THEN "graceful" ELSE "wgwait"

\* case sig := <-s.signalChan
ServeSelectSignal ==
  /\ ~panicked
  /\ servePc = "select"
  /\ sigBuf > 0
  /\ sigBuf' = sigBuf - 1
  /\ servePc' = AfterSelect
  /\ UNCHANGED <<newVars, chainVars, tableAccess,
                 cfgVars, tblVars, cancelled, wg, chVars, sigState, sigSent,
                 sigPc, lpc, serveErrs, callVars, onceVars, engVars, hookVars, panicked>>

\* case err := <-s.errChan, and the loop draining what is queued.
ServeSelectErr ==
  /\ ~panicked
  /\ servePc = "select"
  /\ errChan # {}
  /\ serveErrs' = serveErrs \cup errChan
  /\ errChan' = {}
  /\ servePc' = AfterSelect
  /\ UNCHANGED <<newVars, chainVars, tableAccess,
                 cfgVars, tblVars, cancelled, wg, errChanClosed, sigVars, lpc,
                 callVars, onceVars, engVars, hookVars, panicked>>

\* case <-s.shutdownCtx.Done()
ServeSelectCtx ==
  /\ ~panicked
  /\ servePc = "select"
  /\ cancelled
  /\ servePc' = AfterSelect
  /\ UNCHANGED <<newVars, chainVars, tableAccess,
                 cfgVars, tblVars, cancelled, wg, chVars, sigVars, lpc,
                 serveErrs, callVars, onceVars, engVars, hookVars, panicked>>

\* A plausible slip: Serve not waiting for the listener goroutines.
WaitGroupZero_NoWait == TRUE

\* The condition on which s.wg.Wait() returns.
WaitGroupZero == wg = 0

\* s.wg.Wait() returns; close(s.errChan), signal.Stop, close(s.signalChan),
\* return errors.Join(errs...).
ServeReturn ==
  /\ ~panicked
  /\ servePc = "wgwait"
  /\ WaitGroupZero
  /\ errChanClosed' = TRUE
  /\ sigState' = "closed"
  /\ servePc' = "returned"
  /\ UNCHANGED <<newVars, chainVars, tableAccess,
                 cfgVars, tblVars, cancelled, wg, errChan, sigBuf, sigSent,
                 sigPc, lpc, serveErrs, callVars, onceVars, engVars, hookVars, panicked>>

\* ---- listener goroutines (startHTTPServer / startGRPCServer)

\* s.errChan <- e.  A send on a closed channel panics; a send on a full
\* channel blocks.
CanSendErrChan == errChanClosed \/ Cardinality(errChan) < ErrChanCap
SendErrChan(e) ==
  IF errChanClosed
    THEN panicked' = TRUE /\ UNCHANGED errChan
    ELSE errChan' = errChan \cup {e} /\ UNCHANGED panicked

\* The goroutine builds (or takes) the server object and inserts it into
\* httpServers / grpcServers under serverMu.
ListenerInsert(l) ==
  /\ ~panicked
  /\ lpc[l] = "insert"
  /\ table' = [table EXCEPT ![l] = TRUE]
  /\ tableAccess' = tableAccess \cup {<<"insert", l, TRUE>>}
  /\ srv' = [srv EXCEPT ![l] = "new"]
  /\ lpc' = [lpc EXCEPT ![l] = "listen"]
  /\ UNCHANGED <<newVars, chainVars,
                 cfgVars, cancelled, wg, chVars, sigVars, serveVars, callVars,
                 onceVars, engVars, hookVars, panicked>>

\* net.Listen fails: the listen error goes to s.errChan and the goroutine
\* returns (deferred s.wg.Done()).
ListenerBindFail(l) ==
  /\ ~panicked
  /\ lpc[l] = "listen"
  /\ CanSendErrChan
  /\ SendErrChan(<<"listen", l>>)
  /\ lpc' = [lpc EXCEPT ![l] = "done"]
  /\ wg' = wg - 1
  /\ UNCHANGED <<newVars, chainVars, tableAccess,
                 cfgVars, tblVars, cancelled, errChanClosed, sigVars,
                 serveVars, callVars, onceVars, engVars, hookVars>>

\* net.Listen succeeds and server.Serve(lis) is called.  On a server
\* already shut down or stopped it returns the sentinel at once and the
\* goroutine exits; otherwise the listener is serving.
ListenerServe(l) ==
  /\ ~panicked
  /\ lpc[l] = "listen"
  /\ IF Stopped(l)
       THEN /\ lpc' = [lpc EXCEPT ![l] = "done"]
            /\ wg' = wg - 1
            /\ UNCHANGED srv
       ELSE /\ lpc' = [lpc EXCEPT ![l] = "serving"]
            /\ srv' = [srv EXCEPT ![l] = "serving"]
            /\ UNCHANGED wg
  /\ UNCHANGED <<newVars, chainVars, tableAccess,
                 cfgVars, table, cancelled, chVars, sigVars, serveVars,
                 callVars, onceVars, engVars, hookVars, panicked>>

\* server.Serve(lis) returns http.ErrServerClosed / after grpc Stop: the
\* clean sentinel, not an error; the goroutine exits.
ListenerServeClosed(l) ==
  /\ ~panicked
  /\ lpc[l] = "serving"
  /\ Stopped(l)
  /\ lpc' = [lpc EXCEPT ![l] = "done"]
  /\ wg' = wg - 1
  /\ UNCHANGED <<newVars, chainVars, tableAccess,
                 cfgVars, tblVars, cancelled, chVars, sigVars, serveVars,
                 callVars, onceVars, engVars, hookVars, panicked>>

\* server.Serve(lis) returns a genuine error: it goes to s.errChan and the
\* goroutine exits.
ListenerServeFail(l) ==
  /\ ~panicked
  /\ lpc[l] = "serving"
  /\ ~Stopped(l)
  /\ CanSendErrChan
  /\ SendErrChan(<<"serve", l>>)
  /\ srv' = [srv EXCEPT ![l] = "new"]
  /\ lpc' = [lpc EXCEPT ![l] = "done"]
  /\ wg' = wg - 1
  /\ UNCHANGED <<newVars, chainVars, tableAccess,
                 cfgVars, table, cancelled, errChanClosed, sigVars, serveVars,
                 callVars, onceVars, engVars, hookVars>>

\* ---- signals

\* The operating system delivers a termination signal: signal.Notify
\* queues it on s.signalChan unless the buffer is full.
SignalArrives ==
  /\ ~panicked
  /\ sigState = "notify"
  /\ sigSent < MaxSignals
  /\ sigSent' = sigSent + 1
  /\ sigBuf' = IF sigBuf < SigChanCap THEN sigBuf + 1 ELSE sigBuf
  /\ UNCHANGED <<newVars, chainVars, tableAccess,
                 cfgVars, tblVars, cancelled, wg, chVars, sigState, sigPc, lpc,
                 serveVars, callVars, onceVars, engVars, hookVars, panicked>>

\* The goroutine of setupSignalHandling receives its first signal:
\* s.shutdownCancel(), break.
SignalGoroutineCancel ==
  /\ ~panicked
  /\ sigPc = "range"
  /\ sigBuf > 0
  /\ sigBuf' = sigBuf - 1
  /\ cancelled' = TRUE
  /\ sigPc' = "done"
  /\ UNCHANGED <<newVars, chainVars, tableAccess,
                 cfgVars, tblVars, wg, chVars, sigState, sigSent, lpc,
                 serveVars, callVars, onceVars, engVars, hookVars, panicked>>

\* The range over s.signalChan ends: the channel is closed and empty.
SignalGoroutineExit ==
  /\ ~panicked
  /\ sigPc = "range"
  /\ sigBuf = 0
  /\ sigState = "closed"
  /\ sigPc' = "done"
  /\ UNCHANGED <<newVars, chainVars, tableAccess,
                 cfgVars, tblVars, cancelled, wg, chVars, sigBuf, sigState,
                 sigSent, lpc, serveVars, callVars, onceVars, engVars, hookVars, panicked>>

\* ---- Stop / GracefulShutdown and shutdownOnce

\* A plausible slip: a guard that only excludes a body in progress.
OnceFresh_NotRunning == once # "running"

\* s.shutdownOnce.Do(f) runs f: no call of Do has started before.
OnceFresh == once = "fresh"

\* A plausible slip: a once that lets later calls through as soon as the
\* first call has started.
OnceCompleted_Started == once # "fresh"

\* s.shutdownOnce.Do(f) of a call that is not the first returns: the first
\* call of Do has returned.
OnceCompleted == once = "done"

\* The body of shutdownOnce.Do starts for call r (0 is Serve) in mode g:
\* fresh local wait-group, errs and shutdownErr, and
\* errC := make(chan error, len(s.httpServers)+len(s.grpcServers)), the
\* two lengths read before the first s.serverMu.RLock().
BeginBody(r, g) ==
  /\ once' = "running"
  /\ runner' = r
  /\ isGraceful' = g
  /\ bodyRuns' = bodyRuns + 1
  /\ ctxState' = "live"
  /\ epc' = "http"
  /\ errCcap' = Cardinality({l \in Listeners : table[l]})
  /\ tableAccess' = tableAccess \cup {<<"len", "shutdown", FALSE>>}
  /\ errC' = {}
  /\ errCclosed' = FALSE
  /\ errs' = {}
  /\ UNCHANGED <<spc, firstRes>>

\* An external call of Stop() or GracefulShutdown(ctx) begins: both start
\* with s.shutdownCancel().  Calls are numbered in the order they begin.
\* Which of the two it is matters only if the call comes to run the body
\* of shutdownOnce.Do, and is chosen there.
CallStart(c) ==
  /\ ~panicked
  /\ cpc[c] = "idle"
  /\ \A d \in Callers : d < c => cpc[d] # "idle"
  /\ cancelled' = TRUE
  /\ cpc' = [cpc EXCEPT ![c] = "once"]
  /\ UNCHANGED <<newVars, chainVars, tableAccess,
                 cfgVars, tblVars, wg, chVars, sigVars, lpc, serveVars, cres,
                 onceVars, engVars, hookVars, panicked>>

\* The call reaches s.shutdown(ctx, isGraceful) first: shutdownOnce.Do
\* starts the body, in immediate mode for Stop() (m = "stop") and in
\* graceful mode for GracefulShutdown(ctx) (m = "graceful").
CallBeginBody(c, m) ==
  /\ ~panicked
  /\ cpc[c] = "once"
  /\ OnceFresh
  /\ BeginBody(c, m = "graceful")
  /\ cpc' = [cpc EXCEPT ![c] = "engine"]
  /\ UNCHANGED <<newVars, chainVars,
                 cfgVars, tblVars, cancelled, wg, chVars, sigVars, lpc,
                 serveVars, cres, hookVars, panicked>>

\* The call reaches s.shutdown after the body was started by another
\* call: shutdownOnce.Do returns once that body has ended, without
\* running anything, and shutdown returns its own shutdownErr, nil.
CallReturnNil(c) ==
  /\ ~panicked
  /\ cpc[c] = "once"
  /\ OnceCompleted
  /\ cpc' = [cpc EXCEPT ![c] = "returned"]
  /\ cres' = [cres EXCEPT ![c] = NoErr]
  /\ UNCHANGED <<newVars, chainVars, tableAccess,
                 cfgVars, tblVars, cancelled, wg, chVars, sigVars, lpc,
                 serveVars, onceVars, engVars, hookVars, panicked>>

\* Serve calls s.GracefulShutdown(context.Background()) first:
\* shutdownCancel, then shutdown(shutdownCtx, true) starts the body.
ServeBeginBody ==
  /\ ~panicked
  /\ servePc = "graceful"
  /\ OnceFresh
  /\ cancelled' = TRUE
  /\ BeginBody(0, TRUE)
  /\ servePc' = "engine"
  /\ UNCHANGED <<newVars, chainVars,
                 cfgVars, tblVars, wg, chVars, sigVars, lpc, serveErrs,
                 callVars, hookVars, panicked>>

\* Serve calls s.GracefulShutdown after the body was started by another
\* call: it returns nil once that body has ended, and Serve goes on to
\* s.wg.Wait().
ServeShutdownNil ==
  /\ ~panicked
  /\ servePc = "graceful"
  /\ OnceCompleted
  /\ cancelled' = TRUE
  /\ servePc' = "wgwait"
  /\ UNCHANGED <<newVars, chainVars, tableAccess,
                 cfgVars, tblVars, wg, chVars, sigVars, lpc, serveErrs,
                 callVars, onceVars, engVars, hookVars, panicked>>

\* ---- the shutdown engine: the body of shutdownOnce.Do

\* Under RLock: one stop goroutine per entry of s.httpServers.
EngSpawnHTTP ==
  /\ ~panicked
  /\ epc = "http"
  /\ spc' = [l \in Listeners |-> IF IsHTTP(l) /\ table[l] THEN "op" ELSE spc[l]]
  /\ tableAccess' = tableAccess \cup {<<"range", "http", TRUE>>}
  /\ epc' = "grpc"
  /\ UNCHANGED <<newVars, chainVars,
                 cfgVars, tblVars, cancelled, wg, chVars, sigVars, lpc,
                 serveVars, callVars, onceVars, ctxState, errC, errCcap, errCclosed,
                 errs, firstRes, hookVars, panicked>>

\* Under RLock: one stop goroutine per entry of s.grpcServers.
EngSpawnGRPC ==
  /\ ~panicked
  /\ epc = "grpc"
  /\ spc' = [l \in Listeners |-> IF ~IsHTTP(l) /\ table[l] THEN "op" ELSE spc[l]]
  /\ tableAccess' = tableAccess \cup {<<"range", "grpc", TRUE>>}
  /\ epc' = "wait"
  /\ UNCHANGED <<newVars, chainVars,
                 cfgVars, tblVars, cancelled, wg, chVars, sigVars, lpc,
                 serveVars, callVars, onceVars, ctxState, errC, errCcap, errCclosed,
                 errs, firstRes, hookVars, panicked>>

\* The deadline of the context GracefulShutdown derived elapses while the
\* body runs.
DeadlineExpires ==
  /\ ~panicked
  /\ once = "running"
  /\ isGraceful
  /\ ctxState = "live"
  /\ ctxState' = "deadline"
  /\ UNCHANGED <<newVars, chainVars, tableAccess,
                 cfgVars, tblVars, cancelled, wg, chVars, sigVars, lpc,
                 serveVars, callVars, onceVars, epc, errC, errCcap, errCclosed, errs,
                 spc, firstRes, hookVars, panicked>>

\* ---- per-listener stop goroutines of the body

\* Immediate mode, HTTP: srv.Close().  ok is FALSE when Close returns an
\* error, which then has to go to errC: the error of closing the listener
\* the server is serving on, so there is none for a server not serving.
StopHTTPClose(l, ok) ==
  /\ ~panicked
  /\ spc[l] = "op"
  /\ ~isGraceful
  /\ IsHTTP(l)
  /\ ok \/ srv[l] = "serving"
  /\ srv' = [srv EXCEPT ![l] = "closed"]
  /\ spc' = [spc EXCEPT ![l] = IF ok THEN "done" ELSE "send"]
  /\ UNCHANGED <<newVars, chainVars, tableAccess,
                 cfgVars, table, cancelled, wg, chVars, sigVars, lpc,
                 serveVars, callVars, onceVars, epc, ctxState, errC, errCcap,
                 errCclosed, errs, firstRes, hookVars, panicked>>

\* Immediate mode, gRPC: srv.Stop().
StopGRPCStop(l) ==
  /\ ~panicked
  /\ spc[l] = "op"
  /\ ~isGraceful
  /\ ~IsHTTP(l)
  /\ srv' = [srv EXCEPT ![l] = "closed"]
  /\ spc' = [spc EXCEPT ![l] = "done"]
  /\ UNCHANGED <<newVars, chainVars, tableAccess,
                 cfgVars, table, cancelled, wg, chVars, sigVars, lpc,
                 serveVars, callVars, onceVars, epc, ctxState, errC, errCcap,
                 errCclosed, errs, firstRes, hookVars, panicked>>

\* srv.Shutdown(ctx) of an HTTP server that is not serving: there is no
\* listener to close and no connection to wait for, it returns nil at once.
HTTPNothingToDrain(l) == IsHTTP(l) /\ srv[l] # "serving"

\* Graceful mode: srv.Shutdown(ctx) (HTTP) or GracefulStop in its own
\* goroutine (gRPC) begins: the server stops accepting and drains.
StopBeginGraceful(l) ==
  /\ ~panicked
  /\ spc[l] = "op"
  /\ isGraceful
  /\ srv' = [srv EXCEPT ![l] = IF @ \in {"drained", "closed"} THEN @
                               ELSE IF HTTPNothingToDrain(l) THEN "drained"
                               ELSE "draining"]
  /\ spc' = [spc EXCEPT ![l] = IF HTTPNothingToDrain(l) THEN "done" ELSE "draining"]
  /\ UNCHANGED <<newVars, chainVars, tableAccess,
                 cfgVars, table, cancelled, wg, chVars, sigVars, lpc,
                 serveVars, callVars, onceVars, epc, ctxState, errC, errCcap,
                 errCclosed, errs, firstRes, hookVars, panicked>>

\* Graceful mode: the drain completes.  HTTP: Shutdown returns nil, or
\* (ok FALSE) the error of closing its listener.  gRPC: GracefulStop
\* returns, done is closed and the select takes it.
StopDrained(l, ok) ==
  /\ ~panicked
  /\ spc[l] = "draining"
  /\ IsHTTP(l) \/ ok
  /\ srv' = [srv EXCEPT ![l] = IF @ = "draining" THEN "drained" ELSE @]
  /\ spc' = [spc EXCEPT ![l] = IF ok THEN "done" ELSE "send"]
  /\ UNCHANGED <<newVars, chainVars, tableAccess,
                 cfgVars, table, cancelled, wg, chVars, sigVars, lpc,
                 serveVars, callVars, onceVars, epc, ctxState, errC, errCcap,
                 errCclosed, errs, firstRes, hookVars, panicked>>

\* Graceful mode: ctx is done first.  HTTP: Shutdown returns ctx.Err().
\* gRPC: the select takes ctx.Done(), srv.Stop().  Either way an error is
\* to be sent on errC.
StopDeadline(l) ==
  /\ ~panicked
  /\ spc[l] = "draining"
  /\ ctxState # "live"
  /\ srv' = [srv EXCEPT ![l] = IF IsHTTP(l) THEN @ ELSE "closed"]
  /\ spc' = [spc EXCEPT ![l] = "send"]
  /\ UNCHANGED <<newVars, chainVars, tableAccess,
                 cfgVars, table, cancelled, wg, chVars, sigVars, lpc,
                 serveVars, callVars, onceVars, epc, ctxState, errC, errCcap,
                 errCclosed, errs, firstRes, hookVars, panicked>>

\* errC <- fmt.Errorf(...): panics when errC is closed, blocks while it is
\* full.
StopSend(l) ==
  /\ ~panicked
  /\ spc[l] = "send"
  /\ errCclosed \/ Cardinality(errC) < errCcap
  /\ IF errCclosed
       THEN panicked' = TRUE /\ UNCHANGED errC
       ELSE errC' = errC \cup {<<"stop", l>>} /\ UNCHANGED panicked
  /\ spc' = [spc EXCEPT ![l] = "done"]
  /\ UNCHANGED <<newVars, chainVars, tableAccess,
                 cfgVars, tblVars, cancelled, wg, chVars, sigVars, lpc,
                 serveVars, callVars, onceVars, epc, ctxState, errCcap, errCclosed,
                 errs, firstRes, hookVars>>

\* ---- the body after the stop goroutines were started

StopGoroutinesDone == \A l \in Listeners : spc[l] \in {"none", "done"}

\* A plausible slip: the hook phase outside the "if isGraceful".
RunsHooks_Always == TRUE

\* "if isGraceful": the body calls ExecuteShutdownHooks.
RunsHooks == isGraceful

\* What shutdown returns to a call: the shutdownErr of the body when this
\* call ran it.
ShutdownResult(e) == e

\* The body ends with shutdownErr = e: shutdownOnce.Do returns, shutdown
\* returns e to the call that ran the body, GracefulShutdown's deferred
\* cancel() ends its context, and Serve appends a non-nil e to its errs.
Finish(e) ==
  /\ once' = "done"
  /\ epc' = "finished"
  /\ errs' = e
  /\ firstRes' = ShutdownResult(e)
  /\ ctxState' = IF isGraceful /\ ctxState = "live" THEN "cancelled" ELSE ctxState
  /\ IF runner = 0
       THEN /\ serveErrs' = serveErrs \cup ShutdownResult(e)
            /\ servePc' = "wgwait"
            /\ UNCHANGED callVars
       ELSE /\ cres' = [cres EXCEPT ![runner] = ShutdownResult(e)]
            /\ cpc' = [cpc EXCEPT ![runner] = "returned"]
            /\ UNCHANGED serveVars
  /\ UNCHANGED <<runner, isGraceful, bodyRuns>>

\* The names of the registered hooks.
RegisteredHooks == {shutdownHooks[i].name : i \in DOMAIN shutdownHooks}

\* A plausible slip: the hooks left in registration order.
SortedHooks_Unsorted(hs) == {hs}

\* sort.Sort(s.shutdownHooks) with Less comparing Priority: the outcomes
\* are the orderings of the hooks by ascending priority; sort.Sort does not
\* promise an order among hooks of equal priority.
SortedHooks(hs) ==
  {ss \in [DOMAIN hs -> {hs[i] : i \in DOMAIN hs}] :
     /\ \A i \in DOMAIN hs : \E j \in DOMAIN hs : ss[j] = hs[i]
     /\ \A i, j \in DOMAIN hs : i < j => ss[i].priority <= ss[j].priority}

\* ExecuteShutdownHooks with hooks registered: sort.Sort, fresh hookErrs,
\* then the loop that starts the hook goroutines.
HooksEnter ==
  /\ shutdownHooks' \in SortedHooks(shutdownHooks)
  /\ hookErrs' = {}
  /\ xpc' = "launch"
  /\ UNCHANGED <<hpc, hookCalls, hookRet, xres>>

\* shutdownErr = errors.Join(errs...) with errs = e, then the hook phase:
\* ExecuteShutdownHooks returns nil at once without hooks, else it sorts
\* the hooks and starts one goroutine per hook.
AfterListeners(e) ==
  IF RunsHooks /\ shutdownHooks # <<>>
    THEN /\ epc' = "hookwait"
         /\ errs' = e
         /\ HooksEnter
         /\ UNCHANGED <<onceVars, firstRes, ctxState, serveVars, callVars>>
    ELSE /\ Finish(e)
         /\ UNCHANGED hookVars

\* case <-done: the local wait-group reached zero; close(errC), the loop
\* over errC, then the hook phase.
EngWaitDone ==
  /\ ~panicked
  /\ epc = "wait"
  /\ StopGoroutinesDone
  /\ errCclosed' = TRUE
  /\ errC' = {}
  /\ AfterListeners(errC)
  /\ UNCHANGED <<newVars, chainVars, tableAccess,
                 cfgVars, tblVars, cancelled, wg, chVars, sigVars, lpc,
                 errCcap, spc, panicked>>

\* case <-ctx.Done(): ErrShutdownTimeout is recorded and the body goes on
\* (close(errC), the loop over errC, the hook phase) while stop goroutines
\* may still run.
EngWaitTimeout ==
  /\ ~panicked
  /\ epc = "wait"
  /\ ctxState # "live"
  /\ errCclosed' = TRUE
  /\ errC' = {}
  /\ AfterListeners({ErrShutdownTimeout} \cup errC)
  /\ UNCHANGED <<newVars, chainVars, tableAccess,
                 cfgVars, tblVars, cancelled, wg, chVars, sigVars, lpc,
                 errCcap, spc, panicked>>

\* ---- hook goroutines of ExecuteShutdownHooks

\* The index in s.shutdownHooks of the hook the loop starts next.
NextToLaunch ==
  CHOOSE i \in DOMAIN shutdownHooks :
    /\ hpc[shutdownHooks[i].name] = "none"
    /\ \A j \in DOMAIN shutdownHooks : j < i => hpc[shutdownHooks[j].name] # "none"

\* One iteration of "for _, hook := range s.shutdownHooks": wg.Add(1) and
\* the go statement for the next hook; after the last one the function
\* starts the waiter goroutine and reaches its select.
HooksLaunch ==
  /\ ~panicked
  /\ xpc = "launch"
  /\ hpc' = [hpc EXCEPT ![shutdownHooks[NextToLaunch].name] = "launched"]
  /\ xpc' = IF NextToLaunch = Len(shutdownHooks) THEN "wait" ELSE "launch"
  /\ UNCHANGED <<newVars, chainVars, tableAccess,
                 cfgVars, tblVars, cancelled, wg, chVars, sigVars, lpc,
                 serveVars, callVars, onceVars, engVars, hookErrs, hookCalls, hookRet,
                 shutdownHooks, xres, panicked>>

\* The hook goroutine derives hookCtx and invokes the callback h.Hook.
HookCall(h) ==
  /\ ~panicked
  /\ hpc[h] = "launched"
  /\ hpc' = [hpc EXCEPT ![h] = "running"]
  /\ hookCalls' = [hookCalls EXCEPT ![h] = @ + 1]
  /\ UNCHANGED <<newVars, chainVars, tableAccess,
                 cfgVars, tblVars, cancelled, wg, chVars, sigVars, lpc,
                 serveVars, callVars, onceVars, engVars, hookErrs, hookRet,
                 shutdownHooks, xpc, xres, panicked>>

\* A plausible slip: the callback's error examined before hookCtx.Done().
HookOutcome_ErrFirst(h, r, late) ==
  IF r = "err" THEN {<<"hook", h>>}
  ELSE IF late \/ ctxState = "deadline" THEN {<<"hooktimeout", h>>}
  ELSE {}

\* What the goroutine of hook h records after its callback returned r
\* ("nil" or "err"): the select on hookCtx.Done() with a default case.
\* late: the hook's own timeout elapsed before the callback returned (and
\* before the parent context was done), so hookCtx.Err() is
\* DeadlineExceeded; it is Canceled when only the parent was cancelled.
HookOutcome(h, r, late) ==
  IF late \/ ctxState # "live"
    THEN IF late \/ ctxState = "deadline"
           THEN {<<"hooktimeout", h>>}
           ELSE {}
    ELSE IF r = "err" THEN {<<"hook", h>>} ELSE {}

\* The callback of hook h returns r and the goroutine finishes.
HookReturn(h, r, late) ==
  /\ ~panicked
  /\ hpc[h] = "running"
  /\ hookErrs' = hookErrs \cup HookOutcome(h, r, late)
  /\ hookRet' = [hookRet EXCEPT ![h] = [r |-> r, late |-> late]]
  /\ hpc' = [hpc EXCEPT ![h] = "done"]
  /\ UNCHANGED <<newVars, chainVars, tableAccess,
                 cfgVars, tblVars, cancelled, wg, chVars, sigVars, lpc,
                 serveVars, callVars, onceVars, engVars, hookCalls, shutdownHooks,
                 xpc, xres, panicked>>

\* wg.Wait() of the waiter goroutine returned and done is closed: every
\* hook goroutine has finished.
HooksAllDone == \A h \in RegisteredHooks : hpc[h] = "done"

\* What ExecuteShutdownHooks returns after case <-done: the joined hook
\* errors, nil without any.
HooksDoneResult == hookErrs

\* What ExecuteShutdownHooks returns after case <-ctx.Done().
HooksTimeoutResult == {ErrShutdownTimeout}

\* case <-done of ExecuteShutdownHooks: all hook goroutines finished; the
\* joined hook errors are joined to shutdownErr.
EngHooksDone ==
  /\ ~panicked
  /\ epc = "hookwait"
  /\ xpc = "wait"
  /\ HooksAllDone
  /\ Finish(errs \cup HooksDoneResult)
  /\ xpc' = "returned"
  /\ UNCHANGED <<newVars, chainVars, tableAccess,
                 cfgVars, tblVars, cancelled, wg, chVars, sigVars, lpc, errC,
                 errCcap, errCclosed, spc, hpc, hookErrs, hookCalls, hookRet,
                 shutdownHooks, xres, panicked>>

\* case <-ctx.Done() of ExecuteShutdownHooks: ErrShutdownTimeout, joined
\* to shutdownErr.
EngHooksTimeout ==
  /\ ~panicked
  /\ epc = "hookwait"
  /\ xpc = "wait"
  /\ ctxState # "live"
  /\ Finish(errs \cup HooksTimeoutResult)
  /\ xpc' = "returned"
  /\ UNCHANGED <<newVars, chainVars, tableAccess,
                 cfgVars, tblVars, cancelled, wg, chVars, sigVars, lpc, errC,
                 errCcap, errCclosed, spc, hpc, hookErrs, hookCalls, hookRet,
                 shutdownHooks, xres, panicked>>

\* ---- ExecuteShutdownHooks called directly

\* ExecuteShutdownHooks(ctx) is called on a Server that was not started
\* and not shut down, with a context in state k: nil at once without
\* hooks, else the sort and the launch loop.
ExecHooksStart(k) ==
  /\ ~panicked
  /\ xpc = "idle"
  /\ once = "fresh"
  /\ servePc = "idle"
  /\ \A c \in Callers : cpc[c] = "idle"
  /\ ctxState' = k
  /\ IF shutdownHooks = <<>>
       THEN /\ xpc' = "returned"
            /\ xres' = NoErr
            /\ UNCHANGED <<hpc, hookErrs, hookCalls, hookRet, shutdownHooks>>
       ELSE HooksEnter
  /\ UNCHANGED <<newVars, chainVars, tableAccess,
                 cfgVars, tblVars, cancelled, wg, chVars, sigVars, lpc,
                 serveVars, callVars, onceVars, epc, errC, errCcap, errCclosed, errs,
                 spc, firstRes, panicked>>

\* The context of the direct call is done while the call runs: its
\* deadline elapses, or its owner cancels it.
ExecCtxDone(k) ==
  /\ ~panicked
  /\ xpc \in {"launch", "wait"}
  /\ once = "fresh"
  /\ ctxState = "live"
  /\ ctxState' = k
  /\ UNCHANGED <<newVars, chainVars, tableAccess,
                 cfgVars, tblVars, cancelled, wg, chVars, sigVars, lpc,
                 serveVars, callVars, onceVars, epc, errC, errCcap, errCclosed, errs,
                 spc, firstRes, hookVars, panicked>>

\* case <-done of a direct call.
ExecHooksDone ==
  /\ ~panicked
  /\ xpc = "wait"
  /\ once = "fresh"
  /\ HooksAllDone
  /\ xres' = HooksDoneResult
  /\ xpc' = "returned"
  /\ UNCHANGED <<newVars, chainVars, tableAccess,
                 cfgVars, tblVars, cancelled, wg, chVars, sigVars, lpc,
                 serveVars, callVars, onceVars, engVars, hpc, hookErrs, hookCalls,
                 hookRet, shutdownHooks, panicked>>

\* case <-ctx.Done() of a direct call.
ExecHooksTimeout ==
  /\ ~panicked
  /\ xpc = "wait"
  /\ once = "fresh"
  /\ ctxState # "live"
  /\ xres' = HooksTimeoutResult
  /\ xpc' = "returned"
  /\ UNCHANGED <<newVars, chainVars, tableAccess,
                 cfgVars, tblVars, cancelled, wg, chVars, sigVars, lpc,
                 serveVars, callVars, onceVars, engVars, hpc, hookErrs, hookCalls,
                 hookRet, shutdownHooks, panicked>>

\* ---- next-state relation

ServeStep ==
  \/ ServeNoServers
  \/ ServeStart
  \/ ServeSelectSignal
  \/ ServeSelectErr
  \/ ServeSelectCtx
  \/ ServeBeginBody
  \/ ServeShutdownNil
  \/ ServeReturn

ListenerStep(l) ==
  \/ ListenerInsert(l)
  \/ ListenerBindFail(l)
  \/ ListenerServe(l)
  \/ ListenerServeClosed(l)

SignalStep ==
  \/ SignalGoroutineCancel
  \/ SignalGoroutineExit

CallStep(c) ==
  \/ \E m \in {"stop", "graceful"} : CallBeginBody(c, m)
  \/ CallReturnNil(c)

EngineStep ==
  \/ EngSpawnHTTP
  \/ EngSpawnGRPC
  \/ EngWaitDone
  \/ EngWaitTimeout
  \/ HooksLaunch
  \/ EngHooksDone
  \/ EngHooksTimeout

StopStep(l) ==
  \/ \E ok \in BOOLEAN : StopHTTPClose(l, ok)
  \/ StopGRPCStop(l)
  \/ StopBeginGraceful(l)
  \/ StopDeadline(l)
  \/ StopSend(l)

Next ==
  \/ ServeStep
  \/ \E l \in Listeners : ListenerStep(l)
  \/ \E l \in Listeners : ListenerServeFail(l)
  \/ SignalArrives
  \/ SignalStep
  \/ \E c \in Callers : CallStart(c)
  \/ \E c \in Callers : CallStep(c)
  \/ EngineStep
  \/ DeadlineExpires
  \/ \E l \in Listeners : StopStep(l)
  \/ \E l \in Listeners, ok \in BOOLEAN : StopDrained(l, ok)
  \/ \E h \in HookNames : HookCall(h)
  \/ \E h \in HookNames, r \in {"nil", "err"}, late \in BOOLEAN : HookReturn(h, r, late)

Spec == Init /\ [][Next]_vars

\* Every goroutine that can take a step of the program eventually takes
\* it, and the shutdown deadline elapses.  Not fair: signals, external
\* calls, a listener's serve error, the end of a drain, the return of a
\* hook callback.
Fairness ==
  /\ WF_vars(ServeStep)
  /\ \A l \in Listeners : WF_vars(ListenerStep(l))
  /\ WF_vars(SignalStep)
  /\ \A c \in Callers : WF_vars(CallStep(c))
  /\ WF_vars(EngineStep)
  /\ WF_vars(DeadlineExpires)
  /\ \A l \in Listeners : WF_vars(StopStep(l))
  /\ \A h \in HookNames : WF_vars(HookCall(h))

FairSpec == Spec /\ Fairness

\* ---- NewServer on every option list

InitNew ==
  /\ opts \in OptionLists
  /\ newResult = NotCalled
  /\ isAutomaticStop = TRUE
  /\ signalHandling = TRUE
  /\ httpConfigs = {}
  /\ grpcConfigs = {}
  /\ shutdownHooks = <<>>
  /\ InitServer

CallNewServer ==
  /\ ~newResult.done
  /\ newResult' = NewServer(opts)
  /\ UNCHANGED <<opts, chainVars, tableAccess,
                 cfgVars, tblVars, cancelled, wg, chVars, sigVars, lpc, serveVars,
                 callVars, onceVars, engVars, hookVars, panicked>>

NextNew == CallNewServer

SpecNew == InitNew /\ [][NextNew]_vars

\* ---- shutdown and hook execution on a Server that was never started

\* A Server without listeners, with any list of hooks, on which Serve is
\* not called.
InitHooks ==
  /\ opts = <<>>
  /\ newResult = NotCalled
  /\ isAutomaticStop = FALSE
  /\ signalHandling = FALSE
  /\ httpConfigs = {}
  /\ grpcConfigs = {}
  /\ shutdownHooks \in HookLists
  /\ InitServer

\* Stop / GracefulShutdown is called and ExecuteShutdownHooks is not
\* called directly.
CallStartNoExec(c) == xpc = "idle" /\ CallStart(c)

NextHooks ==
  \/ \E c \in Callers : CallStartNoExec(c)
  \/ \E c \in Callers, m \in {"stop", "graceful"} : CallBeginBody(c, m)
  \/ EngSpawnHTTP
  \/ EngSpawnGRPC
  \/ EngWaitDone
  \/ EngWaitTimeout
  \/ DeadlineExpires
  \/ EngHooksDone
  \/ EngHooksTimeout
  \/ \E k \in {"live", "deadline", "cancelled"} : ExecHooksStart(k)
  \/ \E k \in {"deadline", "cancelled"} : ExecCtxDone(k)
  \/ ExecHooksDone
  \/ ExecHooksTimeout
  \/ HooksLaunch
  \/ \E h \in HookNames : HookCall(h)
  \/ \E h \in HookNames, r \in {"nil", "err"}, late \in BOOLEAN : HookReturn(h, r, late)

SpecHooks == InitHooks /\ [][NextHooks]_vars

\* Every goroutine of the shutdown engine and of ExecuteShutdownHooks that
\* can take a step eventually takes it.  Not fair: the calls, the end of
\* a context, the return of a hook callback.
FairnessHooks ==
  /\ WF_vars(EngHooksDone \/ EngHooksTimeout)
  /\ WF_vars(ExecHooksDone \/ ExecHooksTimeout)
  /\ WF_vars(HooksLaunch)
  /\ \A h \in HookNames : WF_vars(HookCall(h))

FairSpecHooks == SpecHooks /\ FairnessHooks

\* ---- the interceptor chain on its own

\* Everything but the chain.
serverVars == <<newVars, cfgVars, tblVars, cancelled, wg, chVars, sigVars, lpc, serveVars,
                callVars, onceVars, engVars, hookVars, panicked, tableAccess>>

\* A fresh chain; no Server is involved.
InitChain ==
  /\ opts = <<>>
  /\ newResult = NotCalled
  /\ isAutomaticStop = FALSE
  /\ signalHandling = FALSE
  /\ httpConfigs = {}
  /\ grpcConfigs = {}
  /\ shutdownHooks = <<>>
  /\ InitServer

CallPush == \E id \in ChainIds, inter \in Inters : Push(id, inter)
CallInsertAfter == \E anc, id \in ChainIds, inter \in Inters : InsertAfter(anc, id, inter)
CallInsertBefore == \E anc, id \in ChainIds, inter \in Inters : InsertBefore(anc, id, inter)
CallDelete == \E id \in ChainIds : Delete(id)
CallReplace == \E id \in ChainIds, inter \in Inters : Replace(id, inter)

\* Any sequence of the five operations.
NextChain ==
  \/ CallPush /\ UNCHANGED serverVars
  \/ CallInsertAfter /\ UNCHANGED serverVars
  \/ CallInsertBefore /\ UNCHANGED serverVars
  \/ CallDelete /\ UNCHANGED serverVars
  \/ CallReplace /\ UNCHANGED serverVars

SpecChain == InitChain /\ [][NextChain]_vars

\* Any sequence of Push, InsertAfter, Delete and Replace.
NextChainNoBefore ==
  \/ CallPush /\ UNCHANGED serverVars
  \/ CallInsertAfter /\ UNCHANGED serverVars
  \/ CallDelete /\ UNCHANGED serverVars
  \/ CallReplace /\ UNCHANGED serverVars

SpecChainNoBefore == InitChain /\ [][NextChainNoBefore]_vars


\* ------------------------------------------------------------------ claims

\* C1: when Stop() is called while Serve() is running and runs the
\* shutdown body, Serve() eventually returns with every listener goroutine
\* exited (the Server wait-group at zero).
StopBodyStarts ==
  /\ once = "running" /\ ~isGraceful /\ epc = "http"
  /\ servePc \notin {"idle", "returned"}
ServeRunsNoCallYet ==
  /\ servePc \notin {"idle", "returned"}
  /\ \A c \in Callers : cpc[c] = "idle"
C1_StopMakesServeReturn ==
  [](ServeRunsNoCallYet =>
       [](StopBodyStarts => <>(servePc = "returned" /\ wg = 0)))

\* C2: however many calls of Stop / GracefulShutdown are made, by the
\* caller or by Serve, the body of the shutdown engine starts at most once
\* and every hook callback is invoked at most once.
C2_BodyAndHooksAtMostOnce ==
  /\ bodyRuns <= 1
  /\ \A h \in HookNames : hookCalls[h] <= 1
\* Serve's internal GracefulShutdown and an external call have both
\* returned, and the hooks have run.
C2_Witness ==
  /\ isAutomaticStop
  /\ servePc = "returned"
  /\ \A c \in Callers : cpc[c] = "returned"
  /\ \A h \in RegisteredHooks : hookCalls[h] = 1

\* C3: every call of Stop / GracefulShutdown that has returned returned
\* the error of the call that executed the shutdown engine.
C3_SameResultAsFirst ==
  \A c \in Callers : (cpc[c] = "returned" /\ once = "done") => cres[c] = firstRes

\* C4: when the shutdown engine was executed by Stop() (immediate mode), no
\* hook goroutine is started and no hook callback is invoked, not
\* by that Stop() and not by a later call.
C4_StopRunsNoHooks ==
  (once # "fresh" /\ ~isGraceful) =>
    \A h \in HookNames : hpc[h] = "none" /\ hookCalls[h] = 0
\* Stop() executed the engine, and Serve's own GracefulShutdown, made
\* later, has returned too.
C4_Witness ==
  /\ once = "done" /\ ~isGraceful /\ runner > 0
  /\ isAutomaticStop /\ servePc = "returned"
  /\ \E l \in Listeners : srv[l] = "closed"

\* C5: no goroutine of Stop / GracefulShutdown panics: no stop failure is
\* sent on errC after errC was closed.
C5_NoPanic == ~panicked

\* C6 as claimed: with automatic stop disabled, after the triggering event
\* Serve() returns even if the caller never invokes Stop() or
\* GracefulShutdown().
C6_ServeReturnsUnaided ==
  (~isAutomaticStop /\ servePc = "wgwait")
    ~> (servePc = "returned" \/ \E c \in Callers : cpc[c] # "idle")
\* C6 as amended: with automatic stop disabled Serve() never runs the
\* shutdown engine itself, and it returns only when every listener
\* goroutine it launched has exited.
C6_ServeWaitsForListeners ==
  ~isAutomaticStop =>
    /\ runner # 0
    /\ (servePc = "returned" => \A l \in Registered : lpc[l] = "done")
\* Serve() returned with automatic stop disabled, after a caller's
\* shutdown stopped the listeners that were serving.
C6_Witness ==
  /\ ~isAutomaticStop
  /\ Registered = Listeners
  /\ servePc = "returned"
  /\ runner > 0
  /\ \A l \in Listeners : srv[l] \in {"drained", "closed"}

\* Every error sent on s.errChan so far: Serve is the only receiver, so an
\* error is either still queued or in Serve's errs.
ListenerErrors == {<<k, l>> : k \in {"listen", "serve"}, l \in Listeners}
Pushed == errChan \cup (serveErrs \cap ListenerErrors)

\* C7: every bind failure and serve error sent on the shared error channel
\* is part of the error Serve() returns.
C7_AllPushedErrorsReturned == servePc = "returned" => Pushed \subseteq serveErrs

\* C8: when Serve() returns after the shutdown engine has failed to stop a
\* listener, the error Serve() returns contains the engine's error,
\* whoever executed the engine.
C8_ServeReportsShutdownFailure ==
  [][(servePc = "wgwait" /\ servePc' = "returned" /\ once = "done"
      /\ \E l \in Listeners : <<"stop", l>> \in firstRes)
     => firstRes \subseteq serveErrs']_vars

\* C9: when Serve() is called after the shutdown engine has completed, no
\* listener is ever in the serving state.
C9_NoServingAfterShutdown ==
  []((once = "done" /\ servePc = "idle") =>
       [](\A l \in Listeners : lpc[l] # "serving"))

\* Two registrations share a name, or a non-empty bind address.
HasDuplicate(os) ==
  \E i, j \in DOMAIN os :
    /\ i # j
    /\ \/ os[i].name = os[j].name
       \/ os[i].addr # "" /\ os[i].addr = os[j].addr

\* C10: for registrations that all carry a handler / server-or-setup
\* callback, NewServer fails exactly when two of them share a name or a
\* non-empty bind address.
C10_FailsIffDuplicate ==
  (newResult.done /\ \A i \in DOMAIN opts : opts[i].has) =>
    (~newResult.ok <=> HasDuplicate(opts))
\* NewServer refused a gRPC registration that repeats the address of an
\* HTTP registration given after it.
C10_Witness ==
  /\ newResult.done /\ ~newResult.ok
  /\ Len(opts) = 2
  /\ opts[1].kind = "grpc" /\ opts[2].kind = "http"
  /\ opts[1].has /\ opts[2].has
  /\ opts[1].name # opts[2].name
  /\ opts[1].addr = opts[2].addr /\ opts[1].addr # ""

\* C11: when some HTTP registration has no handler, or some gRPC
\* registration has neither server instance nor setup callback, NewServer
\* returns an error and no Server, wherever in the option list it stands.
C11_MissingHandlerFails ==
  (newResult.done /\ \E i \in DOMAIN opts : ~opts[i].has) => ~newResult.ok
\* NewServer refused a list whose second registration, after a valid one
\* of another name, has no handler.
C11_Witness ==
  /\ newResult.done /\ ~newResult.ok
  /\ Len(opts) = 2
  /\ opts[1].has /\ ~opts[2].has
  /\ opts[1].name # opts[2].name
  /\ newResult.err = <<"nohandler", opts[2].name>>

\* A listener has failed and its error is queued for Serve, which waits in
\* its select with automatic stop enabled, every listener is in the
\* running tables and no shutdown has begun.
FatalErrorQueued ==
  /\ isAutomaticStop
  /\ servePc = "select"
  /\ errChan # {}
  /\ \A l \in Registered : table[l]
  /\ once = "fresh"

\* C12: with automatic stop enabled and every listener in the running
\* tables, a fatal listener error makes Serve() run the graceful shutdown
\* and return an error naming the failed listener, unless a signal or an
\* external Stop / GracefulShutdown call intervenes.
C12_FatalErrorStopsAll ==
  FatalErrorQueued ~>
    \/ /\ servePc = "returned"
       /\ runner = 0 /\ isGraceful
       /\ serveErrs \cap ListenerErrors # {}
    \/ sigSent > 0
    \/ \E c \in Callers : cpc[c] # "idle"

\* One signal is queued while Serve waits in its select with signal
\* handling and automatic stop enabled, every listener serving, no error
\* queued and no shutdown begun.
SignalQueued ==
  /\ signalHandling /\ isAutomaticStop
  /\ servePc = "select"
  /\ sigBuf > 0
  /\ \A l \in Registered : lpc[l] = "serving"
  /\ errChan = {}
  /\ once = "fresh"

\* Something failed during the run: a listener error, a listener stop
\* failure, a hook failure, or the shutdown deadline.
SomethingFailed ==
  \/ Pushed # {}
  \/ hookErrs # {}
  \/ ctxState = "deadline"
  \/ \E l \in Listeners : <<"stop", l>> \in firstRes

\* C13: with signal handling and automatic stop enabled and every listener
\* serving, a termination signal makes Serve() run the graceful shutdown:
\* every listener is stopped, every hook callback is invoked once and
\* Serve() returns, with nil when nothing failed (unless an external
\* Stop / GracefulShutdown call intervenes), whichever receiver takes the
\* signal.
C13_SignalIsGracefulShutdown ==
  SignalQueued ~>
    \/ /\ servePc = "returned"
       /\ runner = 0 /\ isGraceful
       /\ \A l \in Registered : Stopped(l)
       /\ \A h \in RegisteredHooks : hookCalls[h] = 1
       /\ serveErrs # {} => SomethingFailed
    \/ \E c \in Callers : cpc[c] # "idle"

\* C14: with signal handling enabled, once a termination signal has been
\* delivered after Serve() subscribed, the shared shutdown context is
\* eventually cancelled, whichever receiver takes the signal and whatever
\* the automatic-stop setting.
C14_FirstSignalCancels == (signalHandling /\ sigSent > 0) ~> cancelled

\* GracefulShutdown was the first shutdown call and has returned, its
\* deadline was not reached and no listener failed to stop.
GracefulReturnedInTime ==
  /\ once = "done" /\ isGraceful /\ runner > 0
  /\ ctxState # "deadline"
  /\ \A l \in Listeners : <<"stop", l>> \notin firstRes

\* The hook goroutines are started in ascending priority order: a hook is
\* not started before every hook of lower priority number.
LaunchedInPriorityOrder ==
  \A i, j \in DOMAIN shutdownHooks :
    (/\ shutdownHooks[i].priority < shutdownHooks[j].priority
     /\ hpc[shutdownHooks[j].name] # "none")
      => hpc[shutdownHooks[i].name] # "none"

\* GracefulShutdown returned nil and every registered hook callback was
\* invoked exactly once.
ReturnedNilHooksOnce ==
  /\ cres[runner] = NoErr
  /\ \A h \in RegisteredHooks : hookCalls[h] = 1

\* C15 as claimed: when GracefulShutdown is the first shutdown call, its
\* deadline is not reached, every listener stops cleanly and every hook
\* callback returns nil, it returns nil with every hook callback invoked
\* exactly once, the hooks launched in ascending priority order.
C15_GracefulAllNil ==
  /\ (once # "fresh" /\ isGraceful /\ runner > 0) => LaunchedInPriorityOrder
  /\ (GracefulReturnedInTime /\ \A h \in RegisteredHooks : hookRet[h].r = "nil")
       => ReturnedNilHooksOnce
\* C15 as amended: the same when every hook callback returns nil before
\* its own per-hook timeout has elapsed.
C15_GracefulAllNilInTime ==
  /\ (once # "fresh" /\ isGraceful /\ runner > 0) => LaunchedInPriorityOrder
  /\ (GracefulReturnedInTime
       /\ \A h \in RegisteredHooks : hookRet[h] = [r |-> "nil", late |-> FALSE])
       => ReturnedNilHooksOnce
\* GracefulShutdown returned nil after two hooks of different priorities
\* ran and returned nil in time.
C15_Witness ==
  /\ GracefulReturnedInTime
  /\ Len(shutdownHooks) = 2
  /\ shutdownHooks[1].priority < shutdownHooks[2].priority
  /\ \A h \in RegisteredHooks : hookRet[h] = [r |-> "nil", late |-> FALSE]
  /\ ReturnedNilHooksOnce

\* The deadline of the running GracefulShutdown has elapsed while the hook
\* phase runs and some hook goroutine has not finished.
DeadlineDuringHooks ==
  /\ once = "running" /\ isGraceful
  /\ epc = "hookwait"
  /\ ctxState = "deadline"
  /\ \E h \in RegisteredHooks : hpc[h] # "done"

\* C16: when the deadline of GracefulShutdown elapses while a hook callback
\* has not returned, the error GracefulShutdown returns contains
\* ErrShutdownTimeout (joined with the listener failures of the call).
C16_HookPhaseTimeout ==
  [](DeadlineDuringHooks => [](once = "done" => ErrShutdownTimeout \in firstRes))

\* A direct call of ExecuteShutdownHooks runs, its context is done and
\* some hook goroutine has not finished.
CtxDoneDuringHooks ==
  /\ once = "fresh"
  /\ xpc \in {"launch", "wait"}
  /\ ctxState # "live"
  /\ \E h \in RegisteredHooks : hpc[h] # "done"

\* ExecuteShutdownHooks, called directly, has returned.
ExecReturned == once = "fresh" /\ xpc = "returned"

\* C17: when the context of ExecuteShutdownHooks is done before every hook
\* goroutine has finished, ExecuteShutdownHooks returns exactly
\* ErrShutdownTimeout, with no per-hook error or per-hook timeout in it.
C17_OverallTimeoutOnly ==
  [](CtxDoneDuringHooks => [](ExecReturned => xres = {ErrShutdownTimeout}))

\* C18: when the context of ExecuteShutdownHooks does not expire, a hook
\* whose callback returned after its per-hook timeout contributes "hook
\* <name> timed out" to the result, and the value the callback returned
\* is not in the result.
C18_LateHookTimedOut ==
  \A h \in RegisteredHooks :
    (ExecReturned /\ ctxState = "live" /\ hookRet[h].late) =>
      /\ <<"hooktimeout", h>> \in xres
      /\ <<"hook", h>> \notin xres
\* ExecuteShutdownHooks returned under a live context after a callback
\* returned an error past its timeout.
C18_Witness ==
  /\ ExecReturned /\ ctxState = "live"
  /\ \E h \in RegisteredHooks : hookRet[h] = [r |-> "err", late |-> TRUE]

\* C19: whatever the state of its context, when a hook callback returned a
\* non-nil error within its timeout the result of ExecuteShutdownHooks is
\* non-nil, and the result is nil only if every callback returned nil
\* within its timeout.
C19_HookErrorNotLost ==
  ExecReturned =>
    /\ (\E h \in RegisteredHooks : hookRet[h] = [r |-> "err", late |-> FALSE])
         => xres # NoErr
    /\ xres = NoErr
         => \A h \in RegisteredHooks : hookRet[h] = [r |-> "nil", late |-> FALSE]

\* C20: during the graceful shutdown the callback of a hook does not start
\* before the callback of every hook of lower priority number has started.
C20_CallbacksInPriorityOrder ==
  (once # "fresh" /\ isGraceful) =>
    \A i, j \in DOMAIN shutdownHooks :
      (/\ shutdownHooks[i].priority < shutdownHooks[j].priority
       /\ hpc[shutdownHooks[j].name] \in {"running", "done"})
        => hpc[shutdownHooks[i].name] \in {"running", "done"}

\* The position of the hook named h in the hook list hs.
HookPos(hs, h) == CHOOSE i \in DOMAIN hs : hs[i].name = h

\* ss is hs sorted by ascending priority with hooks of equal priority in
\* the order they have in hs.
StableSorted(hs, ss) ==
  /\ DOMAIN ss = DOMAIN hs
  /\ \A i \in DOMAIN hs : \E j \in DOMAIN ss : ss[j] = hs[i]
  /\ \A i, j \in DOMAIN ss : i < j => ss[i].priority <= ss[j].priority
  /\ \A i, j \in DOMAIN hs :
       (i < j /\ hs[i].priority = hs[j].priority)
         => HookPos(ss, hs[i].name) < HookPos(ss, hs[j].name)

\* The hook goroutines are started in the order of the hook list.
LaunchedInListOrder ==
  \A i, j \in DOMAIN shutdownHooks :
    (i < j /\ hpc[shutdownHooks[j].name] # "none") => hpc[shutdownHooks[i].name] # "none"

\* C21: ExecuteShutdownHooks orders the hooks by ascending priority keeping
\* hooks of equal priority in registration order, and starts the hook
\* goroutines in that order.
C21_StableLaunchOrder ==
  [][/\ (xpc # "launch" /\ xpc' = "launch") => StableSorted(shutdownHooks, shutdownHooks')
     /\ LaunchedInListOrder']_vars

\* C22: InsertBefore(beforeID, id, inter) with beforeID in the chain and id
\* not in it returns true and yields the chain with id immediately before
\* beforeID and every other entry where it was.
C22_InsertBeforePlacesBefore ==
  [][\A anc, id \in ChainIds, inter \in Inters :
       (anc \in Keys /\ id \notin Keys /\ InsertBefore(anc, id, inter))
         => /\ chainRet'.ok
            /\ itemOrder' = RefInsertAt(itemOrder, IndexOf(itemOrder, anc), id)]_vars

\* id is in the reference list.
RefHas(id) == \E i \in DOMAIN refOrder : refOrder[i] = id

\* The reference list says the call r applies.
RefApplies(r) ==
  CASE r.op = "Push" -> ~RefHas(r.id)
    [] r.op = "InsertAfter" -> ~RefHas(r.id) /\ RefHas(r.anc)
    [] r.op = "InsertBefore" -> ~RefHas(r.id) /\ RefHas(r.anc)
    [] r.op \in {"Delete", "Replace"} -> RefHas(r.id)
    [] OTHER -> FALSE

C24_NoServersFailsAtOnce ==
  Registered = {} =>
    /\ servePc \in {"idle", "returned"}
    /\ servePc = "returned" => serveErrs = {<<"noservers", "">>}
    /\ sigState = "off" /\ sigPc = "none"
    /\ \A l \in Listeners : lpc[l] = "unstarted"
    /\ wg = 0
    /\ runner # 0
\* Serve() returned on a Server without registrations.
C24_Witness == Registered = {} /\ servePc = "returned" /\ serveErrs # {}

\* The stop goroutine of listener l is past its stop operation: the
\* graceful stop completed, or the listener was force-stopped.
StopHandled(l) == spc[l] \in {"none", "send", "done"}

\* C25: in graceful mode no hook callback is invoked before the stop
\* operation of every listener in the running tables has been handled.
C25_HooksAfterListeners ==
  (once # "fresh" /\ isGraceful /\ \E h \in HookNames : hookCalls[h] > 0)
    => \A l \in Listeners : StopHandled(l)

\* C26: when the deadline of GracefulShutdown has elapsed while a listener
\* is draining, the step by which its stop goroutine gets past the stop
\* operation leaves the listener closed or stopped (or drained).
C26_DeadlineForceStops ==
  [][\A l \in Listeners :
       (/\ once = "running" /\ isGraceful /\ ctxState = "deadline"
        /\ spc[l] = "draining" /\ spc'[l] \in {"send", "done"})
         => srv'[l] \in {"closed", "drained"}]_vars

\* C27: s.errChan is closed only by Serve() when it returns, after every
\* listener goroutine it launched has exited, so no listener goroutine is
\* left that could send on the closed channel.
C27_ErrChanClosedAfterListeners ==
  errChanClosed =>
    /\ servePc = "returned"
    /\ \A l \in Listeners : lpc[l] \in {"unstarted", "done"}
    /\ wg = 0
\* Serve() closed the channel after a listener failure and an external
\* shutdown call.
C27_Witness ==
  /\ errChanClosed
  /\ Registered = Listeners
  /\ serveErrs \cap ListenerErrors # {}
  /\ runner > 0

\* A start goroutine has not yet inserted its server into the tables.
InsertPending == \E l \in Listeners : lpc[l] = "insert"

\* C28: every access to httpServers / grpcServers made while a start
\* goroutine may still insert is made with serverMu held.
C28_TableAccessUnderLock ==
  [][InsertPending => \A a \in tableAccess' \ tableAccess : a[3]]_vars

\* C29: after any sequence of the five operations the order list holds
\* every id at most once and exactly the keys of the items map.
C29_OrderMatchesKeys ==
  /\ \A i, j \in DOMAIN itemOrder : itemOrder[i] = itemOrder[j] => i = j
  /\ {itemOrder[i] : i \in DOMAIN itemOrder} = Keys
\* Delete removed an entry of a chain built with InsertBefore.
C29_Witness ==
  /\ chainRet = Returned("Delete", "", "b", TRUE)
  /\ itemOrder = <<"c", "a">>
  /\ refOrder = <<"a", "c">>

====
